---- MODULE Spec2Model ----
(***************************************************************************)
(* Model of .ycm_extra_conf.py: the function FlagsForFile(filename,        *)
(* **kwargs) that a completion host calls to obtain compiler flags.        *)
(*                                                                         *)
(* Text is modelled as sequences of Unicode code points, and the output of *)
(* the helper process as a sequence of bytes (0..255), so that             *)
(* bytes.decode('utf-8') and str.split() are computed, not assumed.        *)
(***************************************************************************)
EXTENDS Integers, Sequences, FiniteSets, TLC

(***************************************************************************)
(* Bounds of the model.                                                    *)
(***************************************************************************)
\* Number of FlagsForFile invocations the host may have in flight.
NumCalls == 2
\* Longest helper output (in bytes) drawn from OutputAlphabet.
MaxOut == 3

Calls == 1..NumCalls

(***************************************************************************)
(* String literals of the source, as code points.                          *)
(***************************************************************************)
\* '-std=c++14'
StdFlag == <<45, 115, 116, 100, 61, 99, 43, 43, 49, 52>>
\* '-I/usr/local/include'
SysIncludeFlag ==
    <<45, 73, 47, 117, 115, 114, 47, 108, 111, 99, 97, 108, 47,
      105, 110, 99, 108, 117, 100, 101>>
\* '-I.'
CwdIncludeFlag == <<45, 73, 46>>
\* '-I'
IncludeSwitch == <<45, 73>>
\* 'include'
IncludeDirName == <<105, 110, 99, 108, 117, 100, 101>>
\* '/'
Slash == 47

\* Variant: the list starts with the first two tokens only.
InitialFlagsTwo == <<StdFlag, SysIncludeFlag>>

\* flags = ['-std=c++14', '-I/usr/local/include', '-I.']
InitialFlags == <<StdFlag, SysIncludeFlag, CwdIncludeFlag>>

(***************************************************************************)
(* bytes.decode('utf-8'): strict UTF-8 decoding.  The result is            *)
(* [ok |-> TRUE, text |-> code points] or [ok |-> FALSE, text |-> <<>>]    *)
(* when a UnicodeDecodeError is raised.                                    *)
(***************************************************************************)
IsCont(b) == b >= 128 /\ b <= 191

\* Number of bytes of the sequence a lead byte opens; 0 for an invalid lead.
SeqLength(b) ==
    IF b < 128 THEN 1
    ELSE IF b >= 194 /\ b <= 223 THEN 2
    ELSE IF b >= 224 /\ b <= 239 THEN 3
    ELSE IF b >= 240 /\ b <= 244 THEN 4
    ELSE 0

\* The second byte's range is narrowed for the leads that would otherwise
\* admit overlong forms, surrogates or values above U+10FFFF.
SecondOk(b0, b1) ==
    /\ IsCont(b1)
    /\ (b0 = 224 => b1 >= 160)
    /\ (b0 = 237 => b1 <= 159)
    /\ (b0 = 240 => b1 >= 144)
    /\ (b0 = 244 => b1 <= 143)

WellFormedAt(bs, i, n) ==
    /\ n >= 1
    /\ i + n - 1 <= Len(bs)
    /\ (n >= 2 => SecondOk(bs[i], bs[i + 1]))
    /\ \A k \in 2..(n - 1) : IsCont(bs[i + k])

CodePointAt(bs, i, n) ==
    IF n = 1 THEN bs[i]
    ELSE IF n = 2 THEN (bs[i] - 192) * 64 + (bs[i + 1] - 128)
    ELSE IF n = 3 THEN (bs[i] - 224) * 4096 + (bs[i + 1] - 128) * 64
                       + (bs[i + 2] - 128)
    ELSE (bs[i] - 240) * 262144 + (bs[i + 1] - 128) * 4096
         + (bs[i + 2] - 128) * 64 + (bs[i + 3] - 128)

\* The decoder's loop: i is the position in the bytes b, acc the text
\* decoded so far.
Decode(bs) ==
    LET DecodeFrom[b \in Seq(Nat), i \in Nat, acc \in Seq(Nat)] ==
            IF i > Len(b) THEN [ok |-> TRUE, text |-> acc]
            ELSE IF WellFormedAt(b, i, SeqLength(b[i]))
                 THEN DecodeFrom[b, i + SeqLength(b[i]),
                                 Append(acc, CodePointAt(b, i, SeqLength(b[i])))]
                 ELSE [ok |-> FALSE, text |-> <<>>]
    IN  DecodeFrom[bs, 1, <<>>]

(***************************************************************************)
(* str.split() with no separator: runs of whitespace separate the tokens,  *)
(* leading and trailing whitespace is dropped, no token is empty.          *)
(***************************************************************************)
\* str.isspace() for one code point.
IsSpace(c) ==
    \/ c \in 9..13
    \/ c \in 28..32
    \/ c \in {133, 160, 5760, 8232, 8233, 8239, 8287, 12288}
    \/ c \in 8192..8202

\* The token cur, when there is one, added to the list acc.
Flush(acc, cur) == IF cur = <<>> THEN acc ELSE Append(acc, cur)

\* Variant: str.split(' '), which cuts at every single space and at nothing
\* else, and keeps empty strings.
SplitOnSpace(s) ==
    LET SplitSepFrom[t \in Seq(Nat), i \in Nat, cur \in Seq(Nat),
                     acc \in Seq(Seq(Nat))] ==
            IF i > Len(t) THEN Append(acc, cur)
            ELSE IF t[i] = 32
                 THEN SplitSepFrom[t, i + 1, <<>>, Append(acc, cur)]
                 ELSE SplitSepFrom[t, i + 1, Append(cur, t[i]), acc]
    IN  SplitSepFrom[s, 1, <<>>, <<>>]

\* The scan: i is the position in the text t, cur the token being collected,
\* acc the tokens found so far.
Split(s) ==
    LET SplitFrom[t \in Seq(Nat), i \in Nat, cur \in Seq(Nat),
                  acc \in Seq(Seq(Nat))] ==
            IF i > Len(t) THEN Flush(acc, cur)
            ELSE IF IsSpace(t[i])
                 THEN SplitFrom[t, i + 1, <<>>, Flush(acc, cur)]
                 ELSE SplitFrom[t, i + 1, Append(cur, t[i]), acc]
    IN  SplitFrom[s, 1, <<>>, <<>>]

(***************************************************************************)
(* os.path (POSIX) on code-point strings.                                  *)
(***************************************************************************)
\* Index of the last '/' of p, 0 when there is none (str.rfind + 1).
LastSlash(p) ==
    LET S == {k \in 1..Len(p) : p[k] = Slash}
    IN  IF S = {} THEN 0 ELSE CHOOSE k \in S : \A m \in S : m <= k

RECURSIVE RStripSlash(_)
RStripSlash(p) ==
    IF p # <<>> /\ p[Len(p)] = Slash
    THEN RStripSlash(SubSeq(p, 1, Len(p) - 1))
    ELSE p

\* os.path.dirname
Dirname(path) ==
    LET dirname[p \in Seq(Nat)] ==
            LET head == SubSeq(p, 1, LastSlash(p))
            IN  IF head # <<>> /\ \E k \in 1..Len(head) : head[k] # Slash
                THEN RStripSlash(head)
                ELSE head
    IN  dirname[path]

\* os.path.join(a, b)
Join(a, b) ==
    LET join[x \in Seq(Nat), y \in Seq(Nat)] ==
            IF y # <<>> /\ y[1] = Slash THEN y
            ELSE IF x = <<>> \/ x[Len(x)] = Slash THEN x \o y
            ELSE x \o <<Slash>> \o y
    IN  join[a, b]

(***************************************************************************)
(* The file system the configuration file lives in, as os.path.realpath    *)
(* sees it: the directory /l is a symbolic link to /p, and relative paths  *)
(* are resolved against the working directory /w.                          *)
(***************************************************************************)
\* '/w'
Cwd == <<47, 119>>
\* '/l'
LinkDir == <<47, 108>>
\* '/p'
LinkTarget == <<47, 112>>

HasPrefix(p, q) == Len(p) >= Len(q) /\ SubSeq(p, 1, Len(q)) = q

\* os.path.abspath
Abspath(p) ==
    IF p = <<>> THEN Cwd
    ELSE IF p[1] = Slash THEN p
    ELSE Join(Cwd, p)

\* os.path.realpath
Realpath(path) ==
    LET resolve[abs \in Seq(Nat)] ==
            IF HasPrefix(abs, LinkDir \o <<Slash>>)
            THEN LinkTarget \o SubSeq(abs, Len(LinkDir) + 1, Len(abs))
            ELSE abs
    IN  resolve[Abspath(path)]

\* Values of __file__: '/l/c.py' (through the link), '/c.py' (in the root
\* directory) and 'c.py' (relative).
CfgFiles ==
    { <<47, 108, 47, 99, 46, 112, 121>>,
      <<47, 99, 46, 112, 121>>,
      <<99, 46, 112, 121>> }

(***************************************************************************)
(* Inputs of the host and behaviours of the helper process.                *)
(***************************************************************************)
\* The filename argument: '/q/a.cc', '/l/a.cc' and '' (no valid path).
Filenames ==
    { <<47, 113, 47, 97, 46, 99, 99>>,
      <<47, 108, 47, 97, 46, 99, 99>>,
      <<>> }

\* The **kwargs argument, as the set of option names the host passes.
KwargsSets == { {}, {"client_data"} }

\* What the host passes: every filename with every set of options.
AllInputs == Filenames \X KwargsSets
\* What the host passes to interleaved invocations: two calls that differ in
\* the filename and in the options.
FewInputs ==
    { <<(<<47, 113, 47, 97, 46, 99, 99>>), {}>>,
      <<(<<>>), {"client_data"}>> }

\* What the host passes where only the scheduling matters.
OneInput == { <<(<<47, 113, 47, 97, 46, 99, 99>>), {}>> }

\* Exit statuses of the helper.
Statuses == {0, 1}

\* b'-I/fake/include1 -I/fake/include2'
StubOutput ==
    <<45, 73, 47, 102, 97, 107, 101, 47, 105, 110, 99, 108, 117, 100, 101, 49,
      32,
      45, 73, 47, 102, 97, 107, 101, 47, 105, 110, 99, 108, 117, 100, 101, 50>>
\* b'-I.\n' : one token, equal to a fixed one
DupOutput == <<45, 73, 46, 10>>
\* b'\xff' : not UTF-8
BadOutput == <<255>>

\* Bytes of the generated outputs: LF, space, '-', 'I', and the two bytes
\* 0xC2 0xA0 that encode U+00A0 (a whitespace character for str.split).
OutputAlphabet == {10, 32, 45, 73, 160, 194}

RECURSIVE SeqsUpTo(_, _)
SeqsUpTo(S, n) ==
    IF n = 0 THEN { <<>> }
    ELSE LET T == SeqsUpTo(S, n - 1)
         IN  T \cup { Append(t, x) : t \in {u \in T : Len(u) = n - 1}, x \in S }

\* Helper outputs of a single invocation explored in depth.
AllOutputs == SeqsUpTo(OutputAlphabet, MaxOut) \cup {StubOutput, DupOutput, BadOutput}
\* Helper outputs of interleaved invocations.
FewOutputs == {StubOutput, DupOutput, BadOutput}
\* Helper outputs where only the scheduling matters.
TwoOutputs == {DupOutput, BadOutput}

(***************************************************************************)
(* State.                                                                  *)
(***************************************************************************)
VARIABLES
    cfgFile,      \* __file__ of the configuration module
    pc,           \* pc[i]: where invocation i stands
    filename,     \* filename[i]: the argument of invocation i
    kwargs,       \* kwargs[i]: the extra keyword options of invocation i
    flags,        \* flags[l]: the contents of flag list l
    child,        \* child[i]: the helper process of invocation i
    py_includes,  \* py_includes[i]: the local of that name
    spawned,      \* spawned[i]: child processes launched by invocation i
    error,        \* error[i]: the exception invocation i raised, or "none"
    returned      \* returned[i]: <<>> or <<the mapping returned>>

vars == <<cfgFile, pc, filename, kwargs, flags, child, py_includes,
          spawned, error, returned>>

NoChild == [state |-> "none", status |-> 0, out |-> <<>>]

Init ==
    /\ cfgFile \in CfgFiles
    /\ pc = [i \in Calls |-> "idle"]
    /\ filename = [i \in Calls |-> <<>>]
    /\ kwargs = [i \in Calls |-> {}]
    /\ flags = [i \in Calls |-> <<>>]
    /\ child = [i \in Calls |-> NoChild]
    /\ py_includes = [i \in Calls |-> <<>>]
    /\ spawned = [i \in Calls |-> 0]
    /\ error = [i \in Calls |-> "none"]
    /\ returned = [i \in Calls |-> <<>>]

(***************************************************************************)
(* The code of FlagsForFile, by line.                                      *)
(***************************************************************************)
\* Variant: one module-level list shared by all invocations.
FlagListShared(i) == 1

\* The list object the local name `flags` of invocation i is bound to: a
\* fresh list per call.
FlagList(i) == i

\* Variant: the output is collected without waiting for the child's exit.
HelperDoneNoWait(ch) == ch.state \in {"running", "exited"}

\* check_output blocks until the child has exited (no timeout is passed).
HelperDone(ch) == ch.state = "exited"

\* Variant: a failed helper call is tried again.
OnErrorRetry == "spawn"

\* No try/except surrounds the call: an exception ends the invocation.
OnError == "failed"

\* Variant: the exit status is not checked (as with Popen.communicate).
CheckOutputUnchecked(ch) == [ok |-> TRUE, err |-> "none", bytes |-> ch.out]

\* subprocess.check_output on an exited child: the captured bytes, or the
\* CalledProcessError of a non-zero status.
CheckOutput(ch) ==
    IF ch.status # 0
    THEN [ok |-> FALSE, err |-> "CalledProcessError", bytes |-> <<>>]
    ELSE [ok |-> TRUE, err |-> "none", bytes |-> ch.out]

\* check_output(...).decode('utf-8').split()
PyIncludes(ch) ==
    LET co == CheckOutput(ch) IN
    IF ~co.ok THEN [ok |-> FALSE, err |-> co.err, tokens |-> <<>>]
    ELSE LET d == Decode(co.bytes) IN
         IF ~d.ok
         THEN [ok |-> FALSE, err |-> "UnicodeDecodeError", tokens |-> <<>>]
         ELSE [ok |-> TRUE, err |-> "none", tokens |-> Split(d.text)]

\* Variant: the helper tokens are put in front of the list.
ExtendPrepend(fl, toks) == toks \o fl

\* flags.extend(py_includes)
Extend(fl, toks) == fl \o toks

\* Variant: the directory of the file being completed.
ProjDirOfInput(i) == Dirname(Realpath(filename[i]))

\* Variant: the directory of __file__ as written, links not resolved.
ProjDirUnresolved(i) == Dirname(cfgFile)

\* proj_dir = os.path.dirname(os.path.realpath(__file__))
ProjDir(i) == Dirname(Realpath(cfgFile))

\* proj_include = os.path.join(proj_dir, 'include')
ProjInclude(i) == Join(ProjDir(i), IncludeDirName)

\* '-I' + proj_include
ProjFlag(i) == IncludeSwitch \o ProjInclude(i)

\* Variant: a misspelt key.
ReturnValueMisspelt(fl) == [flag |-> fl]

\* {'flags': flags}
ReturnValue(fl) == [flags |-> fl]

\* The host calls FlagsForFile(f, **k); line 5 builds the list.
Call(i, Ins) ==
    /\ pc[i] = "idle"
    /\ \E in \in Ins :
          /\ filename' = [filename EXCEPT ![i] = in[1]]
          /\ kwargs' = [kwargs EXCEPT ![i] = in[2]]
    /\ flags' = [flags EXCEPT ![FlagList(i)] = InitialFlags]
    /\ pc' = [pc EXCEPT ![i] = "spawn"]
    /\ UNCHANGED <<cfgFile, child, py_includes, spawned, error, returned>>

\* Lines 9-10: check_output launches ['python3-config', '--includes'].  The
\* child is forked; when no python3-config is on the search path its exec
\* fails and FileNotFoundError is raised.
Spawn(i) ==
    /\ pc[i] = "spawn"
    /\ spawned' = [spawned EXCEPT ![i] = @ + 1]
    /\ \E found \in BOOLEAN :
          IF found
          THEN /\ child' = [child EXCEPT ![i].state = "running"]
               /\ pc' = [pc EXCEPT ![i] = "wait"]
               /\ error' = error
          ELSE /\ child' = [child EXCEPT ![i].state = "execfailed"]
               /\ pc' = [pc EXCEPT ![i] = OnError]
               /\ error' = [error EXCEPT ![i] = "FileNotFoundError"]
    /\ UNCHANGED <<cfgFile, filename, kwargs, flags, py_includes, returned>>

\* The helper process writes its output and exits (it may also never do so).
HelperExit(i, Outs) ==
    /\ child[i].state = "running"
    /\ \E st \in Statuses, o \in Outs :
          child' = [child EXCEPT ![i] = [state |-> "exited", status |-> st, out |-> o]]
    /\ UNCHANGED <<cfgFile, pc, filename, kwargs, flags, py_includes,
                   spawned, error, returned>>

\* Lines 9-11: check_output returns once the child has exited; the output is
\* decoded and split, or the error propagates.
WaitHelper(i) ==
    /\ pc[i] = "wait"
    /\ HelperDone(child[i])
    /\ \E r \in {PyIncludes(child[i])} :
          /\ pc' = [pc EXCEPT ![i] = IF r.ok THEN "extend" ELSE OnError]
          /\ py_includes' = [py_includes EXCEPT ![i] = r.tokens]
          /\ error' = [error EXCEPT ![i] = r.err]
    /\ UNCHANGED <<cfgFile, filename, kwargs, flags, child, spawned, returned>>

\* Line 12.
ExtendFlags(i) ==
    /\ pc[i] = "extend"
    /\ flags' = [flags EXCEPT ![FlagList(i)] = Extend(@, py_includes[i])]
    /\ pc' = [pc EXCEPT ![i] = "append"]
    /\ UNCHANGED <<cfgFile, filename, kwargs, child, py_includes, spawned,
                   error, returned>>

\* Lines 14-16.
AppendProj(i) ==
    /\ pc[i] = "append"
    /\ flags' = [flags EXCEPT ![FlagList(i)] = Append(@, ProjFlag(i))]
    /\ pc' = [pc EXCEPT ![i] = "return"]
    /\ UNCHANGED <<cfgFile, filename, kwargs, child, py_includes, spawned,
                   error, returned>>

\* Line 18.
Return(i) ==
    /\ pc[i] = "return"
    /\ returned' = [returned EXCEPT ![i] = <<ReturnValue(flags[FlagList(i)])>>]
    /\ pc' = [pc EXCEPT ![i] = "done"]
    /\ UNCHANGED <<cfgFile, filename, kwargs, flags, child, py_includes,
                   spawned, error>>

\* The steps of invocation i itself (the helper's exit is not one of them).
Step(i) ==
    \/ Spawn(i)
    \/ WaitHelper(i)
    \/ ExtendFlags(i)
    \/ AppendProj(i)
    \/ Return(i)

\* Invocations for several files, interleaved.
Next ==
    \E i \in Calls :
        \/ Call(i, FewInputs)
        \/ Step(i)
        \/ HelperExit(i, FewOutputs)

Spec == Init /\ [][Next]_vars

\* Interleaved invocations under a fair scheduler: every invocation that can
\* take a step eventually takes one; nothing makes a helper exit.
NextFair ==
    \E i \in Calls :
        \/ Call(i, OneInput)
        \/ Step(i)
        \/ HelperExit(i, TwoOutputs)

FairSpec == Init /\ [][NextFair]_vars /\ \A i \in Calls : WF_vars(Step(i))

\* One invocation, over every helper output of the bounded alphabet.
NextOne ==
    \/ Call(1, AllInputs)
    \/ Step(1)
    \/ HelperExit(1, AllOutputs)

SpecOne == Init /\ [][NextOne]_vars

(***************************************************************************)
(* Properties.                                                             *)
(***************************************************************************)
Completed(i) == pc[i] \in {"done", "failed"}

\* The flag sequence invocation i returned.
Result(i) == returned[i][1].flags

\* The helper of invocation i could not be run, exited with a non-zero
\* status, or printed bytes that are not UTF-8.
HelperFailed(i) ==
    \/ child[i].state = "execfailed"
    \/ /\ child[i].state = "exited"
       /\ (child[i].status # 0 \/ ~Decode(child[i].out).ok)

\* Code points of a Python str.
CodePoints == 0..1114111

\* '-I/fake/include1' and '-I/fake/include2'
StubToken1 ==
    <<45, 73, 47, 102, 97, 107, 101, 47, 105, 110, 99, 108, 117, 100, 101, 49>>
StubToken2 ==
    <<45, 73, 47, 102, 97, 107, 101, 47, 105, 110, 99, 108, 117, 100, 101, 50>>

\* C1: every FlagsForFile call that returns, whatever its path and options,
\* yields a mapping with exactly one key, "flags", whose value is a sequence
\* of strings; and a mapping is there exactly when the call has returned.
C1_ReturnsFlagsMapping ==
    \A i \in Calls :
        /\ (pc[i] = "done") <=> (returned[i] # <<>>)
        /\ pc[i] = "done" =>
              /\ Len(returned[i]) = 1
              /\ DOMAIN returned[i][1] = {"flags"}
              /\ returned[i][1].flags \in Seq(Seq(CodePoints))

\* A call with no valid path and with extra options has returned.
C1_Witness ==
    \E i \in Calls : pc[i] = "done" /\ filename[i] = <<>> /\ kwargs[i] # {}

\* C2 (as claimed): with the stub's output, the two stub tokens are entries 3
\* and 4 of the returned sequence, right after two fixed tokens.
C2_StubAtThreeAndFour ==
    \A i \in Calls :
        (pc[i] = "done" /\ child[i].out = StubOutput) =>
            /\ Result(i)[3] = StubToken1
            /\ Result(i)[4] = StubToken2

\* C2 (amended): with the stub's output, the returned sequence holds the
\* three fixed tokens '-std=c++14', '-I/usr/local/include', '-I.', then
\* exactly the two stub tokens in order as entries 4 and 5, then one last
\* entry.
C2_StubAfterThreeFixed ==
    \A i \in Calls :
        (pc[i] = "done" /\ child[i].out = StubOutput) =>
            /\ Len(Result(i)) = 6
            /\ Result(i)[1] = StdFlag
            /\ Result(i)[2] = SysIncludeFlag
            /\ Result(i)[3] = CwdIncludeFlag
            /\ Result(i)[4] = StubToken1
            /\ Result(i)[5] = StubToken2
            /\ Result(i)[6] \notin {StubToken1, StubToken2}

\* An invocation whose helper printed the stub's output has returned.
C2_Witness ==
    \E i \in Calls : pc[i] = "done" /\ child[i].out = StubOutput

\* C3: in every call that returns, the first two entries are '-std=c++14'
\* and '-I/usr/local/include', in that order, whatever the helper printed.
C3_FirstTwoFixed ==
    \A i \in Calls :
        pc[i] = "done" =>
            /\ Len(Result(i)) >= 2
            /\ Result(i)[1] = StdFlag
            /\ Result(i)[2] = SysIncludeFlag

\* A call has returned whose helper printed at least one token.
C3_Witness ==
    \E i \in Calls : pc[i] = "done" /\ py_includes[i] # <<>>

\* C4: when the helper is not found, exits with a non-zero status or prints
\* bytes that are not UTF-8, the call never returns a mapping: it waits for
\* check_output or has failed with the matching error; and a failed call has
\* returned nothing.
C4_HelperFailurePropagates ==
    \A i \in Calls :
        /\ HelperFailed(i) =>
              /\ returned[i] = <<>>
              /\ pc[i] \in {"wait", "failed"}
              /\ pc[i] = "failed" =>
                    error[i] = IF child[i].state = "execfailed"
                                  THEN "FileNotFoundError"
                               ELSE IF child[i].status # 0
                                  THEN "CalledProcessError"
                               ELSE "UnicodeDecodeError"
        /\ pc[i] = "failed" => (returned[i] = <<>> /\ HelperFailed(i))

\* A call has failed on a helper that exited non-zero after printing valid,
\* non-empty output.
C4_Witness ==
    \E i \in Calls :
        /\ pc[i] = "failed"
        /\ child[i].state = "exited"
        /\ child[i].status # 0
        /\ child[i].out = StubOutput

\* C5: two calls that returned on the same helper output (the configuration
\* file being where it is) returned identical mappings, whatever their
\* filenames and options.
C5_InputIgnored ==
    \A i, j \in Calls :
        (pc[i] = "done" /\ pc[j] = "done" /\ child[i].out = child[j].out) =>
            returned[i] = returned[j]

\* Two calls with different filenames and different options have returned on
\* the same helper output.
C5_Witness ==
    \E i, j \in Calls :
        /\ pc[i] = "done" /\ pc[j] = "done"
        /\ child[i].out = child[j].out
        /\ filename[i] # filename[j]
        /\ kwargs[i] # kwargs[j]

\* C6: the last flag is '-I' followed by a path whose last component is
\* 'include' and whose parent is the resolved directory of __file__.
C6_ProjectIncludeFromConfigDir ==
    \A i \in Calls :
        pc[i] = "done" =>
            LET last == Result(i)[Len(Result(i))]
                path == SubSeq(last, 3, Len(last))
            IN  /\ HasPrefix(last, IncludeSwitch)
                /\ SubSeq(path, LastSlash(path) + 1, Len(path)) = IncludeDirName
                /\ Dirname(path) = Dirname(Realpath(cfgFile))

\* A call has returned for a file whose own directory differs from the
\* resolved directory of a configuration file reached through a link.
C6_Witness ==
    \E i \in Calls :
        /\ pc[i] = "done"
        /\ Realpath(cfgFile) # cfgFile
        /\ filename[i] # <<>>
        /\ Dirname(Realpath(filename[i])) # Dirname(Realpath(cfgFile))

\* C7: an invocation never launches more than one child, and one that has
\* completed, returned or failed, has launched exactly one.
C7_OneChildPerCall ==
    \A i \in Calls :
        /\ spawned[i] <= 1
        /\ Completed(i) => spawned[i] = 1
        /\ pc[i] \in {"wait", "extend", "append", "return"} => spawned[i] = 1

\* A call has returned and a later-completing call has failed, each on its
\* own child.
C7_Witness ==
    \E i, j \in Calls :
        /\ pc[i] = "done" /\ pc[j] = "failed"
        /\ spawned[i] = 1 /\ spawned[j] = 1

\* What invocation i returns when it runs alone on its helper's output.
RunAlone(i) ==
    <<StdFlag, SysIncludeFlag, CwdIncludeFlag>>
        \o Split(Decode(child[i].out).text)
        \o <<IncludeSwitch \o Join(Dirname(Realpath(cfgFile)), IncludeDirName)>>

\* C8: under every interleaving each call returns the sequence it returns
\* when run alone, and a mapping once returned is not changed by any later
\* step.
C8_Isolated ==
    /\ [](\A i \in Calls : pc[i] = "done" => Result(i) = RunAlone(i))
    /\ [][\A i \in Calls : returned[i] # <<>> => returned'[i] = returned[i]]_vars

\* Two calls have returned on different helper outputs.
C8_Witness ==
    \E i, j \in Calls :
        /\ pc[i] = "done" /\ pc[j] = "done"
        /\ child[i].out # child[j].out

\* The child of invocation i is gone: the helper exited, or the forked child
\* ended on its failed exec.
ChildExited(i) == child[i].state \in {"exited", "execfailed"}

\* C9: a call never completes before its child has exited; once the child
\* has exited the call eventually returns or fails; so a call whose helper
\* never exits never completes.
C9_BlocksUntilHelperExits ==
    /\ [](\A i \in Calls : Completed(i) => ChildExited(i))
    /\ [](\A i \in Calls : child[i].state = "running" => pc[i] = "wait")
    /\ \A i \in Calls : (ChildExited(i) ~> Completed(i))

\* One call has returned after its helper's exit while another is blocked
\* on a helper that is still running.
C9_Witness ==
    \E i, j \in Calls :
        /\ pc[i] = "done" /\ child[i].state = "exited"
        /\ pc[j] = "wait" /\ child[j].state = "running"

\* The maximal runs of non-whitespace characters of s, in order.
RunStarts(s) ==
    {a \in 1..Len(s) : ~IsSpace(s[a]) /\ (a = 1 \/ IsSpace(s[a - 1]))}
RunEnd(s, a) ==
    CHOOSE b \in a..Len(s) :
        /\ \A k \in a..b : ~IsSpace(s[k])
        /\ (b = Len(s) \/ IsSpace(s[b + 1]))
NthRun(s, n) ==
    LET a == CHOOSE x \in RunStarts(s) :
                 Cardinality({y \in RunStarts(s) : y < x}) = n - 1
    IN  SubSeq(s, a, RunEnd(s, a))
Runs(s) == [n \in 1..Cardinality(RunStarts(s)) |-> NthRun(s, n)]

\* C10: the entries after the three fixed tokens and before the last one are
\* exactly the maximal non-whitespace runs of the decoded output, in order
\* (so none is empty or holds whitespace, duplicates are kept); the
\* project-local include flag is the last entry; the length is the number of
\* fixed tokens plus the number of runs plus one.
C10_TokensAreRuns ==
    \A i \in Calls :
        pc[i] = "done" =>
            LET text == Decode(child[i].out).text
                fl == Result(i)
                toks == SubSeq(fl, 4, Len(fl) - 1)
            IN  /\ Len(fl) = 3 + Cardinality(RunStarts(text)) + 1
                /\ toks = Runs(text)
                /\ \A k \in 1..Len(toks) :
                      toks[k] # <<>> /\ \A m \in 1..Len(toks[k]) : ~IsSpace(toks[k][m])
                /\ fl[Len(fl)] =
                      IncludeSwitch \o Join(Dirname(Realpath(cfgFile)), IncludeDirName)

\* A call has returned on an output that repeats a token, the two separated
\* by a line feed.
C10_Witness ==
    \E i \in Calls :
        /\ pc[i] = "done"
        /\ \E a, b \in 1..Len(py_includes[i]) :
              a # b /\ py_includes[i][a] = py_includes[i][b]
        /\ \E k \in 1..Len(child[i].out) : child[i].out[k] = 10
        /\ \A k \in 1..Len(child[i].out) : child[i].out[k] # 32

====
